---- MODULE Spec2Model ----
(***************************************************************************)
(* FileResources (src/debug/file_resources.rs): a map from a name to a     *)
(* file-backed Resource that is re-read when the file's modification time  *)
(* is newer than the recorded one.  The filesystem is part of the state:   *)
(* every path has a status, a content and a modification time, and changes *)
(* between calls in any way.  Every call of the store is one step:         *)
(* `&mut self` gives it the map exclusively.                               *)
(***************************************************************************)
EXTENDS Integers, Sequences, FiniteSets, TLC

\* ------------------------------------------------------------------ bounds
MaxTime == 1     \* modification times are 0..MaxTime

Names == {"k1", "k2"}
Paths == {"logo.png", "notes"}
Times == 0..MaxTime

\* The calls of register_resource_file the model makes: k1 for either path,
\* k2 for one, so that a name is registered again with another path and two
\* names share a file.
RegisterInputs == {<<"k1", "logo.png">>, <<"k1", "notes">>, <<"k2", "notes">>}

\* The Vec<u8> values files hold.
Contents == {<<>>, <<0>>, <<1>>}

\* Option<T>: None is <<>>, Some(x) is <<x>>.
None == <<>>
Some(x) == <<x>>
OptTimes == {None} \cup {Some(t) : t \in Times}

\* Result<T, io::Error>.
Ok(v) == [ok |-> TRUE, val |-> v]
Err(e) == [ok |-> FALSE, err |-> e]
\* An io::Error: its ErrorKind, and whether the program built it itself
\* (io::Error::new) or the operating system reported it.
OsError(kind) == [kind |-> kind, custom |-> FALSE]
NotFoundName(name) == [kind |-> "NotFound", custom |-> TRUE]

VARIABLES
    files,       \* the filesystem: path -> [status, content, mtime]
    resources,   \* FileResources.resources: name -> Resource, for the names held
    last,        \* the last call of the store: what was called, what it returned
                 \* and which files it touched
    heap,        \* SpecArc: the Arc<Vec<u8>> buffers allocated and the handle a
                 \* caller kept
    calls        \* SpecSteps: the calls in progress, statement by statement

vars == <<files, resources, last, heap, calls>>

\* Spec takes every call as one step and a buffer as its bytes: heap and
\* calls are not used and stay as they start.
NoHeap == <<>>
NoCalls == <<>>

\* ------------------------------------------------------------ the filesystem
\* status "ok": metadata and content can be read; "noread": metadata can be
\* read, the content cannot (permissions); "missing": the path does not exist.
\* What an unreadable file holds is seen by no call, so it is kept as <<>>
\* and chosen when the file becomes readable again.
\* mtime None: the platform has no modification time for the file
\* (Metadata::modified() is an Err).
MissingFile == [status |-> "missing", content |-> <<>>, mtime |-> None]
FileStates ==
    {MissingFile}
    \cup [status : {"ok"}, content : Contents, mtime : OptTimes]
    \cup [status : {"noread"}, content : {<<>>}, mtime : OptTimes]

\* Path::metadata(): Err when the path cannot be reached.
metadata(p) ==
    IF files[p].status = "missing"
    THEN Err(OsError("NotFound"))
    ELSE Ok([modified |-> files[p].mtime])

\* Metadata::modified(): the Option left by .ok() / matched as Ok / Err.
modified(md) == md.modified

\* fs::read(path): the whole content, or an error.
fs_read(p) ==
    CASE files[p].status = "ok"      -> Ok(files[p].content)
      [] files[p].status = "noread"  -> Err(OsError("PermissionDenied"))
      [] files[p].status = "missing" -> Err(OsError("NotFound"))

\* ---------------------------------------------------- external collaborators
\* compute_data_etag: a fixed-width hash of the bytes.  The tag space is
\* finite and smaller than the space of contents, so two contents can share
\* a tag; equal contents always do.
EtagSpace == 2
RECURSIVE HashBytes(_, _)
HashBytes(data, h) ==
    IF data = <<>> THEN h
    ELSE HashBytes(Tail(data), (h + Head(data) + 1) % EtagSpace)
compute_data_etag(data) == HashBytes(data, 0)

\* path.extension() and mime_guess::from_ext(..).first_or_octet_stream().
APPLICATION_OCTET_STREAM == "application/octet-stream"
extension(p) == IF p = "logo.png" THEN Some("png") ELSE None
from_ext(ext) == IF ext = "png" THEN "image/png" ELSE APPLICATION_OCTET_STREAM

\* --------------------------------------------------------------- the store
\* Mutant: remove empties the map.
remove_clears(map, name) == [n \in {} |-> 0]

\* HashMap::new(), insert, remove.
EmptyMap == [n \in {} |-> 0]
insert(map, name, resource) == [n \in DOMAIN map \cup {name} |->
                                   IF n = name THEN resource ELSE map[n]]
remove(map, name) == [n \in DOMAIN map \ {name} |-> map[n]]

\* The record of a call: what was called with what, what it returned, the
\* names whose file had its metadata queried (statted), the names whose file
\* content was read or tried (read), and for a get of a held name the mtime
\* its entry had when the call began (was; <<-1>> otherwise).
NoWas == <<-1>>
Call(op, name, path, res, statted, read, was) ==
    [op |-> op, name |-> name, path |-> path, res |-> res,
     statted |-> statted, read |-> read, was |-> was]

\* What the body of a call leaves: the map, the result, the files touched.
Outcome(map, res, statted, read) ==
    [resources |-> map, res |-> res, statted |-> statted, read |-> read]

Init ==
    /\ files \in [Paths -> FileStates]
    /\ resources = EmptyMap
    /\ last = Call("new", "-", "-", Ok(<<>>), {}, {}, NoWas)
    /\ heap = NoHeap
    /\ calls = NoCalls

\* register_resource_file: the mime of the path's extension.
register_mime(path) ==
    IF extension(path) # None
    THEN from_ext(extension(path)[1])
    ELSE APPLICATION_OCTET_STREAM

\* Mutant: the modification time is not recorded.
register_resource_no_mtime(path, mtime, data) ==
    LET etag == compute_data_etag(data)
        mime == register_mime(path)
    IN [path |-> path, mime |-> mime, data |-> data, etag |-> etag, mtime |-> None]

\* register_resource_file: the Resource built from what was read.
register_resource(path, mtime, data) ==
    LET etag == compute_data_etag(data)
        mime == register_mime(path)
    IN [path |-> path, mime |-> mime, data |-> data, etag |-> etag, mtime |-> mtime]

\* Mutant: the name's old entry is dropped when the file cannot be loaded.
register_failed_drops_entry(map, name, err, read) ==
    Outcome([n \in DOMAIN map \ {name} |-> map[n]], Err(err), {name}, read)

\* register_resource_file: `?` on metadata() or fs::read() returns the error
\* before anything is inserted.
register_failed(map, name, err, read) == Outcome(map, Err(err), {name}, read)

\* register_resource_file(name, file_path), as a function of the map.
register_body(map, name, path) ==
    LET md == metadata(path)
    IN IF ~md.ok
       THEN register_failed(map, name, md.err, {})
       ELSE LET mtime == modified(md.val)
                rd == fs_read(path)
            IN IF ~rd.ok
               THEN register_failed(map, name, rd.err, {name})
               ELSE Outcome(insert(map, name, register_resource(path, mtime, rd.val)),
                            Ok(<<>>), {name}, {name})

register_resource_file(name, path) ==
    LET out == register_body(resources, name, path)
    IN /\ UNCHANGED <<files, heap, calls>>
       /\ resources' = out.resources
       /\ last' = Call("register", name, path, out.res, out.statted, out.read, NoWas)

\* Mutant: the path is returned and the entry stays (get for remove).
unregister_keeps_entry(name) ==
    /\ UNCHANGED <<files, resources, heap, calls>>
    /\ last' = Call("unregister", name, "-",
                    Ok(IF name \in DOMAIN resources
                       THEN Some(resources[name].path) ELSE None), {}, {}, NoWas)

\* unregister_resource_file(name)
unregister_resource_file(name) ==
    /\ UNCHANGED <<files, heap, calls>>
    /\ resources' = remove(resources, name)
    /\ last' = Call("unregister", name, "-",
                    Ok(IF name \in DOMAIN resources
                       THEN Some(resources[name].path) ELSE None), {}, {}, NoWas)

\* Mutant: `>=` for `>`, an equal modification time counts as newer.
get_reload_decision_ge(mtime, new_mtime) ==
    IF mtime # None
    THEN IF new_mtime # None
         THEN [reload |-> new_mtime[1] >= mtime[1], new_mtime |-> new_mtime]
         ELSE [reload |-> TRUE, new_mtime |-> None]
    ELSE IF new_mtime # None
         THEN [reload |-> TRUE, new_mtime |-> new_mtime]
         ELSE [reload |-> TRUE, new_mtime |-> None]

\* Mutant: a modification time that cannot be queried counts as unchanged.
get_reload_decision_err_keeps(mtime, new_mtime) ==
    IF mtime # None
    THEN IF new_mtime # None
         THEN [reload |-> new_mtime[1] > mtime[1], new_mtime |-> new_mtime]
         ELSE [reload |-> FALSE, new_mtime |-> None]
    ELSE IF new_mtime # None
         THEN [reload |-> TRUE, new_mtime |-> new_mtime]
         ELSE [reload |-> TRUE, new_mtime |-> None]

\* Mutant: `!=` for `>`, a modification time that moved backward counts too.
get_reload_decision_ne(mtime, new_mtime) ==
    IF mtime # None
    THEN IF new_mtime # None
         THEN [reload |-> new_mtime[1] # mtime[1], new_mtime |-> new_mtime]
         ELSE [reload |-> TRUE, new_mtime |-> None]
    ELSE IF new_mtime # None
         THEN [reload |-> TRUE, new_mtime |-> new_mtime]
         ELSE [reload |-> TRUE, new_mtime |-> None]

\* get_resource: the match on resource.mtime and metadata.modified(), giving
\* (reload, new_mtime).
get_reload_decision(mtime, new_mtime) ==
    IF mtime # None
    THEN IF new_mtime # None
         THEN [reload |-> new_mtime[1] > mtime[1], new_mtime |-> new_mtime]
         ELSE [reload |-> TRUE, new_mtime |-> None]
    ELSE IF new_mtime # None
         THEN [reload |-> TRUE, new_mtime |-> new_mtime]
         ELSE [reload |-> TRUE, new_mtime |-> None]

\* Mutant: the new data is stored and the etag is left as it was.
get_replace_keeps_etag(resource, new_data, new_mtime) ==
    [resource EXCEPT !.data = new_data, !.mtime = new_mtime]

\* Mutant: the new data and etag are stored and the mtime is left as it was.
get_replace_keeps_mtime(resource, new_data, new_mtime) ==
    LET new_etag == compute_data_etag(new_data)
    IN [resource EXCEPT !.data = new_data, !.etag = new_etag]

\* Mutant: a reload sets the mime anew, to the default.
get_replace_resets_mime(resource, new_data, new_mtime) ==
    LET new_etag == compute_data_etag(new_data)
    IN [resource EXCEPT !.data = new_data, !.etag = new_etag, !.mtime = new_mtime,
                        !.mime = APPLICATION_OCTET_STREAM]

\* get_resource: the body of `if reload` after the read succeeded.
get_replace(resource, new_data, new_mtime) ==
    LET new_etag == compute_data_etag(new_data)
    IN [resource EXCEPT !.data = new_data, !.etag = new_etag, !.mtime = new_mtime]

\* Mutant: the error for a name not held has another ErrorKind.
get_not_found_other_kind(map, name) ==
    Outcome(map, Err([kind |-> "Other", custom |-> TRUE]), {}, {})

\* get_resource: ok_or_else on a name the map does not hold.
get_not_found(map, name) == Outcome(map, Err(NotFoundName(name)), {}, {})

\* Mutant: when the file cannot be statted the cached entry is served.
get_metadata_failed_serves_cache(map, name, err) ==
    Outcome(map, Ok(<<map[name].mime, map[name].data, map[name].etag>>), {name}, {})

\* get_resource: `?` on resource.path.metadata().
get_metadata_failed(map, name, err) == Outcome(map, Err(err), {name}, {})

\* Mutant: the new mtime is stored before the read is tried.
get_read_failed_after_mtime(map, name, new_mtime, err) ==
    Outcome([map EXCEPT ![name].mtime = new_mtime], Err(err), {name}, {name})

\* get_resource: `?` on fs::read(&resource.path), inside `if reload`.
get_read_failed(map, name, new_mtime, err) == Outcome(map, Err(err), {name}, {name})

\* get_resource: the value returned, from the entry as the call leaves it.
get_return(resource) == Ok(<<resource.mime, resource.data, resource.etag>>)

\* get_resource(name), as a function of the map.
get_body(map, name) ==
    IF name \notin DOMAIN map
    THEN get_not_found(map, name)
    ELSE LET resource == map[name]
             md == metadata(resource.path)
         IN IF ~md.ok
            THEN get_metadata_failed(map, name, md.err)
            ELSE LET d == get_reload_decision(resource.mtime, modified(md.val))
                     rd == fs_read(resource.path)
                 IN IF d.reload
                    THEN IF ~rd.ok
                         THEN get_read_failed(map, name, d.new_mtime, rd.err)
                         ELSE LET r == get_replace(resource, rd.val, d.new_mtime)
                              IN Outcome([map EXCEPT ![name] = r], get_return(r),
                                         {name}, {name})
                    ELSE Outcome(map, get_return(resource), {name}, {})

get_resource(name) ==
    LET out == get_body(resources, name)
    IN /\ UNCHANGED <<files, heap, calls>>
       /\ resources' = out.resources
       /\ last' = Call("get", name, "-", out.res, out.statted, out.read,
                       IF name \in DOMAIN resources
                       THEN resources[name].mtime ELSE NoWas)

\* Mutant: `>=` for `>` in the sweep's copy of the match.
sweep_reload_decision_ge(mtime, new_mtime) ==
    IF mtime # None
    THEN IF new_mtime # None
         THEN [reload |-> new_mtime[1] >= mtime[1], new_mtime |-> new_mtime]
         ELSE [reload |-> TRUE, new_mtime |-> None]
    ELSE IF new_mtime # None
         THEN [reload |-> TRUE, new_mtime |-> new_mtime]
         ELSE [reload |-> TRUE, new_mtime |-> None]

\* reload_if_needed: the match on resource.mtime and metadata.modified().
sweep_reload_decision(mtime, new_mtime) ==
    IF mtime # None
    THEN IF new_mtime # None
         THEN [reload |-> new_mtime[1] > mtime[1], new_mtime |-> new_mtime]
         ELSE [reload |-> TRUE, new_mtime |-> None]
    ELSE IF new_mtime # None
         THEN [reload |-> TRUE, new_mtime |-> new_mtime]
         ELSE [reload |-> TRUE, new_mtime |-> None]

\* reload_if_needed: the body of `if reload` after the read succeeded.
sweep_replace(resource, new_data, new_mtime) ==
    LET new_etag == compute_data_etag(new_data)
    IN [resource EXCEPT !.data = new_data, !.etag = new_etag, !.mtime = new_mtime]

\* Mutant: the error ends the loop and is dropped.
sweep_failed_swallowed(map, err, statted, read) == Outcome(map, Ok(<<>>), statted, read)

\* reload_if_needed: `?` on metadata() or fs::read() leaves the loop and the
\* function with the error; what earlier iterations wrote stays.
sweep_failed(map, err, statted, read) == Outcome(map, Err(err), statted, read)

\* reload_if_needed: the loop over resources.values_mut(), visiting the
\* names in `order`.
RECURSIVE reload_loop(_, _, _, _)
reload_loop(order, map, statted, read) ==
    IF order = <<>>
    THEN Outcome(map, Ok(<<>>), statted, read)
    ELSE LET name == Head(order)
             resource == map[name]
             md == metadata(resource.path)
         IN IF ~md.ok
            THEN sweep_failed(map, md.err, statted \cup {name}, read)
            ELSE LET d == sweep_reload_decision(resource.mtime, modified(md.val))
                     rd == fs_read(resource.path)
                 IN IF d.reload
                    THEN IF ~rd.ok
                         THEN sweep_failed(map, rd.err, statted \cup {name},
                                           read \cup {name})
                         ELSE reload_loop(Tail(order),
                                  [map EXCEPT ![name] =
                                       sweep_replace(resource, rd.val, d.new_mtime)],
                                  statted \cup {name}, read \cup {name})
                    ELSE reload_loop(Tail(order), map, statted \cup {name}, read)

\* The orders in which a HashMap may yield its values: every permutation of
\* the names it holds.
Orders(S) ==
    {o \in [1..Cardinality(S) -> S] : \A i, j \in DOMAIN o : i # j => o[i] # o[j]}

\* reload_if_needed()
reload_if_needed ==
    /\ UNCHANGED <<files, heap, calls>>
    /\ \E order \in Orders(DOMAIN resources) :
          LET out == reload_loop(order, resources, {}, {})
          IN /\ resources' = out.resources
             /\ last' = Call("reload", "-", "-", out.res, out.statted, out.read, NoWas)

\* ------------------------------------------------- the filesystem changing
FsChange == Call("fs", "-", "-", Ok(<<>>), {}, {}, NoWas)

\* A file appears at p.
CreateFile(p, c, t) ==
    /\ files[p].status = "missing"
    /\ files' = [files EXCEPT ![p] = [status |-> "ok", content |-> c, mtime |-> t]]
    /\ UNCHANGED <<resources, heap, calls>>
    /\ last' = FsChange

\* The readable file at p gets another content; its modification time stays
\* (a write within the clock's granularity, or one followed by SetModified).
WriteFile(p, c) ==
    /\ files[p].status = "ok"
    /\ c # files[p].content
    /\ files' = [files EXCEPT ![p].content = c]
    /\ UNCHANGED <<resources, heap, calls>>
    /\ last' = FsChange

\* The file at p gets another modification time, later or earlier, or loses it.
SetModified(p, t) ==
    /\ files[p].status # "missing"
    /\ t # files[p].mtime
    /\ files' = [files EXCEPT ![p].mtime = t]
    /\ UNCHANGED <<resources, heap, calls>>
    /\ last' = FsChange

\* The file at p is removed.
DeleteFile(p) ==
    /\ files[p].status # "missing"
    /\ files' = [files EXCEPT ![p] = MissingFile]
    /\ UNCHANGED <<resources, heap, calls>>
    /\ last' = FsChange

\* The permission to read the content of p is taken away.
DenyRead(p) ==
    /\ files[p].status = "ok"
    /\ files' = [files EXCEPT ![p].status = "noread", ![p].content = <<>>]
    /\ UNCHANGED <<resources, heap, calls>>
    /\ last' = FsChange

\* The permission is given back; the file holds c.
AllowRead(p, c) ==
    /\ files[p].status = "noread"
    /\ files' = [files EXCEPT ![p].status = "ok", ![p].content = c]
    /\ UNCHANGED <<resources, heap, calls>>
    /\ last' = FsChange

Next ==
    \/ \E in \in RegisterInputs : register_resource_file(in[1], in[2])
    \/ \E name \in Names : unregister_resource_file(name)
    \/ reload_if_needed
    \/ \E name \in Names : get_resource(name)
    \/ \E p \in Paths, c \in Contents, t \in OptTimes : CreateFile(p, c, t)
    \/ \E p \in Paths, c \in Contents : WriteFile(p, c)
    \/ \E p \in Paths, t \in OptTimes : SetModified(p, t)
    \/ \E p \in Paths : DeleteFile(p)
    \/ \E p \in Paths : DenyRead(p)
    \/ \E p \in Paths, c \in Contents : AllowRead(p, c)

Spec == Init /\ [][Next]_vars

\* ------------------------------------------------------------------ claims
\* What the claims speak of, stated from the state alone.
Held == DOMAIN resources
FileOf(n) == files[resources[n].path]
\* The file of n can be statted and its modification time is known, as is
\* the one recorded in the entry.
BothKnown(n) ==
    /\ FileOf(n).status # "missing"
    /\ resources[n].mtime # None
    /\ FileOf(n).mtime # None
Newer(n) == FileOf(n).mtime[1] > resources[n].mtime[1]
\* The entry of n with the file's content, its fingerprint and its mtime.
Reloaded(n) ==
    [resources[n] EXCEPT !.data = FileOf(n).content,
                         !.etag = compute_data_etag(FileOf(n).content),
                         !.mtime = FileOf(n).mtime]
\* The step is a call of get_resource(n), of reload_if_needed: the calls that
\* leave that record in `last`.
GetStep(n) == last'.op = "get" /\ last'.name = n
SweepStep == last'.op = "reload"
IsIOError(res) == ~res.ok /\ ~res.err.custom
IsNotFoundError(res) == ~res.ok /\ res.err.custom /\ res.err.kind = "NotFound"

\* C1: in every reachable state every entry of the store has
\* etag = compute_data_etag(data).
C1_EtagMatchesData ==
    \A n \in Held : resources[n].etag = compute_data_etag(resources[n].data)

\* A get has just replaced an entry that is in the store with other content
\* than another entry of the same file holds.
C1_Witness ==
    /\ last.op = "get" /\ last.res.ok /\ last.name \in last.read
    /\ \E m \in Held \ {last.name} :
          /\ resources[m].path = resources[last.name].path
          /\ resources[m].etag # resources[last.name].etag

\* C2: for an entry with mtime Some(t) whose file reports Some(t'), get and
\* reload_if_needed read the content iff t' > t; with t' <= t the entry is
\* left as it is, with t' > t and a readable file it becomes the file's
\* content, fingerprint and mtime.
C2_Post(n) ==
    /\ (n \in last'.read) <=> Newer(n)
    /\ ~Newer(n) => resources'[n] = resources[n]
    /\ Newer(n) /\ FileOf(n).status = "ok" => resources'[n] = Reloaded(n)

C2_ReloadIffNewer ==
    [][/\ \A n \in Held : GetStep(n) /\ BothKnown(n) => C2_Post(n)
       /\ SweepStep =>
             \A n \in last'.statted : BothKnown(n) => C2_Post(n)]_vars

\* A get found the recorded Some(t) older than the file's time and reloaded.
C2_Witness ==
    /\ last.op = "get" /\ last.res.ok /\ last.name \in last.read
    /\ last.was # None /\ FileOf(last.name).mtime # None
    /\ FileOf(last.name).mtime[1] > last.was[1]

\* C3 as claimed: a successful get of an entry with mtime Some(t) whose file
\* reports t' > t returns the file's bytes and their fingerprint, a
\* fingerprint other than the old one whenever the bytes differ from the
\* old ones, and records Some(t').
C3_Returned(n) ==
    /\ last'.res.val[2] = FileOf(n).content
    /\ last'.res.val[3] = compute_data_etag(FileOf(n).content)
    /\ resources'[n].mtime = FileOf(n).mtime

C3_Original ==
    [][\A n \in Held :
          GetStep(n) /\ BothKnown(n) /\ Newer(n) /\ last'.res.ok =>
             /\ C3_Returned(n)
             /\ FileOf(n).content # resources[n].data
                   => last'.res.val[3] # resources[n].etag]_vars

\* C3 as amended: the same, the fingerprint returned differing from the old
\* one exactly when compute_data_etag tells the new bytes from the old.
C3_NewerIsServed ==
    [][\A n \in Held :
          GetStep(n) /\ BothKnown(n) /\ Newer(n) /\ last'.res.ok =>
             /\ C3_Returned(n)
             /\ resources'[n].data = FileOf(n).content
             /\ resources'[n].etag = last'.res.val[3]
             /\ (last'.res.val[3] # resources[n].etag)
                   <=> (compute_data_etag(FileOf(n).content)
                           # compute_data_etag(resources[n].data))]_vars

\* A get found the file newer than the recorded time and returned bytes
\* with another fingerprint than another entry of the file still holds.
C3_Witness ==
    /\ last.op = "get" /\ last.res.ok /\ last.name \in last.read
    /\ last.was # None /\ resources[last.name].mtime # None
    /\ resources[last.name].mtime[1] > last.was[1]
    /\ last.res.val[2] = FileOf(last.name).content
    /\ \E m \in Held : /\ resources[m].path = resources[last.name].path
                       /\ resources[m].data # last.res.val[2]
                       /\ resources[m].etag # last.res.val[3]

\* The staleness policy as the specification words it: reload when either
\* time is unknown or the file's is strictly newer.
SpecStale(n) ==
    \/ resources[n].mtime = None
    \/ FileOf(n).mtime = None
    \/ Newer(n)
CachedTuple(n) == <<resources[n].mime, resources[n].data, resources[n].etag>>
\* The call before this one was a successful register or get of n, and the
\* filesystem has not changed since (a change resets `last`).
JustServed(n) ==
    /\ n \in Held
    /\ last.op \in {"get", "register"} /\ last.name = n /\ last.res.ok

\* C4 as claimed: a get of n that follows a successful register or get of n
\* with no file change in between returns the bytes and fingerprint the
\* entry held (those the get before returned) and reads no file content.
C4_Original ==
    [][\A n \in Names :
          GetStep(n) /\ JustServed(n) =>
             /\ last'.res = Ok(CachedTuple(n))
             /\ last.op = "get" => last'.res = last.res
             /\ last'.read = {}]_vars

\* C4 as amended: such a get returns the same bytes and fingerprint; it reads
\* no file content when the entry's mtime is known, and reads the content
\* again on every call when it is unknown.
C4_RepeatedGetStable ==
    [][\A n \in Names :
          GetStep(n) /\ JustServed(n) =>
             /\ last'.res = Ok(CachedTuple(n))
             /\ last.op = "get" => last'.res = last.res
             /\ resources'[n].data = resources[n].data
             /\ resources'[n].etag = resources[n].etag
             /\ (last'.read = {}) <=> (resources[n].mtime # None)
             /\ resources[n].mtime # None => resources' = resources]_vars

\* A get served the file's current content from the cache, without a read,
\* the file's time being the one recorded.
C4_Witness ==
    /\ last.op = "get" /\ last.res.ok /\ last.read = {}
    /\ last.was = FileOf(last.name).mtime
    /\ last.res.val[2] = FileOf(last.name).content

\* C5: a get of an entry with mtime Some(t) whose file reports t' <= t
\* returns the cached bytes and fingerprint whatever the file holds now, and
\* changes nothing.
C5_NotNewerServesCache ==
    [][\A n \in Held :
          GetStep(n) /\ BothKnown(n) /\ ~Newer(n) =>
             /\ last'.res = Ok(CachedTuple(n))
             /\ resources' = resources]_vars

\* A get returned cached bytes that the file, its time not later than the
\* recorded one, no longer holds.
C5_Witness ==
    /\ last.op = "get" /\ last.res.ok /\ last.read = {}
    /\ FileOf(last.name).status = "ok"
    /\ FileOf(last.name).content # last.res.val[2]
    /\ compute_data_etag(FileOf(last.name).content) # last.res.val[3]
    /\ FileOf(last.name).mtime[1] <= resources[last.name].mtime[1]

\* C6: when the entry's mtime is None or the file's mtime cannot be queried,
\* get and reload_if_needed read the content, and when the read succeeds the
\* entry holds the file's content, its fingerprint and the queried time
\* (None when the query failed).
EitherUnknown(n) ==
    /\ FileOf(n).status # "missing"
    /\ resources[n].mtime = None \/ FileOf(n).mtime = None
C6_Post(n) ==
    /\ n \in last'.read
    /\ FileOf(n).status = "ok" => resources'[n] = Reloaded(n)

C6_UnknownAlwaysReloads ==
    [][/\ \A n \in Held : GetStep(n) /\ EitherUnknown(n) => C6_Post(n)
       /\ SweepStep =>
             \A n \in last'.statted : EitherUnknown(n) => C6_Post(n)]_vars

\* A get of an entry that recorded Some(t) could not query the time,
\* reloaded and recorded None.
C6_Witness ==
    /\ last.op = "get" /\ last.res.ok /\ last.name \in last.read
    /\ last.was # None /\ last.was # NoWas
    /\ resources[last.name].mtime = None
    /\ resources[last.name].data = FileOf(last.name).content

\* C7: a get of a held name whose file cannot be statted fails with the
\* filesystem's error, returns no cached tuple, reads nothing and leaves
\* the whole store as it was.
C7_InaccessibleFails ==
    [][\A n \in Held :
          GetStep(n) /\ FileOf(n).status = "missing" =>
             /\ IsIOError(last'.res)
             /\ last'.read = {}
             /\ resources' = resources]_vars

\* A get of a held name failed on the metadata of its deleted file.
C7_Witness ==
    /\ last.op = "get" /\ last.name \in Held /\ IsIOError(last.res)
    /\ FileOf(last.name).status = "missing"
    /\ last.read = {}

\* C8: when the policy says reload and the content cannot be read, get and
\* reload_if_needed fail with the filesystem's error and the entry keeps its
\* data, etag and mtime.
ReadWillFail(n) == FileOf(n).status = "noread" /\ SpecStale(n)

C8_FailedReadKeepsEntry ==
    [][/\ \A n \in Held :
             GetStep(n) /\ ReadWillFail(n) =>
                /\ IsIOError(last'.res)
                /\ resources' = resources
       /\ SweepStep =>
             \A n \in last'.statted : ReadWillFail(n) =>
                /\ IsIOError(last'.res)
                /\ resources'[n] = resources[n]]_vars

\* A get found a newer time, could not read the content and failed.
C8_Witness ==
    /\ last.op = "get" /\ last.name \in Held /\ IsIOError(last.res)
    /\ last.name \in last.read
    /\ FileOf(last.name).status = "noread"
    /\ BothKnown(last.name) /\ Newer(last.name)

\* C9: reload_if_needed checks the entries one by one.  It returns Ok only
\* when every entry was checked and none failed; it returns the filesystem's
\* error of the first entry that fails, the entries checked before keeping
\* what their check wrote, the failing entry and the entries not reached
\* unchanged.  No name is added or removed.
Fails(n) == FileOf(n).status = "missing" \/ ReadWillFail(n)
Checked(n) == resources'[n] = IF SpecStale(n) THEN Reloaded(n) ELSE resources[n]

C9_SweepStopsAtFirstFailure ==
    [][SweepStep =>
          /\ DOMAIN resources' = Held
          /\ last'.statted \subseteq Held
          /\ \A n \in Held \ last'.statted : resources'[n] = resources[n]
          /\ last'.res.ok =>
                /\ last'.statted = Held
                /\ \A n \in Held : ~Fails(n) /\ Checked(n)
          /\ ~last'.res.ok =>
                /\ IsIOError(last'.res)
                /\ \E f \in last'.statted :
                      /\ Fails(f)
                      /\ resources'[f] = resources[f]
                      /\ \A g \in last'.statted \ {f} : ~Fails(g) /\ Checked(g)
          /\ (\E n \in Held : Fails(n)) => ~last'.res.ok]_vars

\* A sweep reloaded one entry, then failed on the other.
C9_Witness ==
    /\ last.op = "reload" /\ IsIOError(last.res)
    /\ Cardinality(last.statted) = 2
    /\ \E n \in last.read :
          /\ FileOf(n).status = "ok"
          /\ resources[n].data = FileOf(n).content
          /\ \E f \in last.statted \ {n} : FileOf(f).status # "ok"

\* C10: a get of a name the store does not hold fails with the NotFound
\* error the store builds, queries no metadata, reads no content and leaves
\* the store as it was.
C10_AbsentNameNotFound ==
    [][\A n \in Names \ Held :
          GetStep(n) =>
             /\ IsNotFoundError(last'.res)
             /\ last'.statted = {} /\ last'.read = {}
             /\ resources' = resources
             /\ files' = files]_vars

\* A get of a name that was unregistered, another name being held, failed
\* with NotFound.
C10_Witness ==
    /\ last.op = "get" /\ IsNotFoundError(last.res)
    /\ last.name \notin Held /\ Held # {}

\* The step is a call of unregister_resource_file(n), of
\* register_resource_file(n, ..).
UnregisterStep(n) == last'.op = "unregister" /\ last'.name = n
RegisterStep(n) == last'.op = "register" /\ last'.name = n

\* C11: unregister of a held name removes that entry and no other and
\* returns Some(its path); of a name not held it returns None and changes
\* nothing; it never fails.  A name not held stays so until it is
\* registered, and every get of it meanwhile fails with NotFound.
C11_UnregisterRemoves ==
    [][/\ \A n \in Names :
             UnregisterStep(n) =>
                /\ last'.res.ok
                /\ DOMAIN resources' = Held \ {n}
                /\ \A m \in Held \ {n} : resources'[m] = resources[m]
                /\ n \in Held => last'.res.val = Some(resources[n].path)
                /\ n \notin Held => last'.res.val = None /\ resources' = resources
       /\ \A n \in Names \ Held :
             /\ n \in DOMAIN resources' => RegisterStep(n) /\ last'.res.ok
             /\ GetStep(n) => IsNotFoundError(last'.res)]_vars

\* An unregister returned the path of the name it removed, the other name
\* staying held.
C11_Witness ==
    /\ last.op = "unregister" /\ last.res.val = Some("logo.png")
    /\ last.name \notin Held /\ Held # {}

\* The content-type label of a path, as the specification words it: that of
\* the extension, the binary-stream label when there is none or it is unknown.
SpecLabel(p) == IF p = "logo.png" THEN "image/png" ELSE "application/octet-stream"

\* C12: register(n, p) succeeds exactly when the file can be statted and
\* read; it then leaves under n the entry [p, label of p, the file's content,
\* its fingerprint, the file's mtime or None], whatever n held before, and
\* changes no other entry.  A get of n right after it, the file unchanged,
\* returns that content and fingerprint.
C12_RegisterStoresFile ==
    [][\A n \in Names :
          /\ RegisterStep(n) =>
                LET p == last'.path
                IN /\ last'.res.ok <=> files[p].status = "ok"
                   /\ last'.res.ok =>
                         /\ DOMAIN resources' = Held \cup {n}
                         /\ resources'[n] =
                               [path |-> p, mime |-> SpecLabel(p),
                                data |-> files[p].content,
                                etag |-> compute_data_etag(files[p].content),
                                mtime |-> files[p].mtime]
                         /\ \A m \in Held \ {n} : resources'[m] = resources[m]
          /\ GetStep(n) /\ last.op = "register" /\ last.name = n /\ last.res.ok =>
                last'.res = Ok(<<SpecLabel(last.path), files[last.path].content,
                                 compute_data_etag(files[last.path].content)>>)]_vars

\* A register stored under k1 what logo.png held, k2 being held too.
C12_Witness ==
    /\ last.op = "register" /\ last.res.ok /\ last.name = "k1"
    /\ resources["k1"].path = "logo.png"
    /\ resources["k1"].data = <<0>>
    /\ resources["k1"].mtime = Some(1)
    /\ "k2" \in Held

\* The outcome of a call as a caller sees it: success or the error.
SameResult(r1, r2) == r1.ok = r2.ok /\ (~r1.ok => r1.err = r2.err)

\* C13: on a store that holds the single name n, a get of n leaves the map
\* reload_if_needed would leave and succeeds or fails as it would, with the
\* same filesystem calls; and reload_if_needed leaves the map a get of n
\* would leave and succeeds or fails as it would.
C13_SweepAndGetAgree ==
    [][\A n \in Names :
          Held = {n} =>
             /\ GetStep(n) =>
                   LET sweep == reload_loop(<<n>>, resources, {}, {})
                   IN /\ resources' = sweep.resources
                      /\ SameResult(last'.res, sweep.res)
                      /\ last'.statted = sweep.statted /\ last'.read = sweep.read
             /\ SweepStep =>
                   LET get == get_body(resources, n)
                   IN /\ resources' = get.resources
                      /\ SameResult(last'.res, get.res)
                      /\ last'.statted = get.statted /\ last'.read = get.read]_vars

\* A sweep of a store holding one name reloaded its entry.
C13_Witness ==
    /\ last.op = "reload" /\ last.res.ok /\ Cardinality(Held) = 1
    /\ last.read = Held
    /\ \A n \in Held : resources[n].data = FileOf(n).content /\ resources[n].data # <<>>

\* C14: a get or a sweep keeps every held name and leaves the path and mime
\* of every entry as they were, changing at most data, etag and mtime; the
\* mime a get returns is the one the entry had, the label of its path.
C14_PathAndMimeFixed ==
    [][(last'.op \in {"get", "reload"}) =>
          /\ DOMAIN resources' = Held
          /\ \A m \in Held :
                /\ resources'[m].path = resources[m].path
                /\ resources'[m].mime = resources[m].mime
                /\ resources'[m] = [resources[m] EXCEPT !.data = resources'[m].data,
                                                        !.etag = resources'[m].etag,
                                                        !.mtime = resources'[m].mtime]
          /\ \A n \in Held :
                GetStep(n) /\ last'.res.ok =>
                   /\ last'.res.val[1] = resources[n].mime
                   /\ last'.res.val[1] = SpecLabel(resources[n].path)]_vars

\* A get reloaded the entry registered for logo.png and returned its label
\* with the new bytes.
C14_Witness ==
    /\ last.op = "get" /\ last.res.ok /\ last.name \in last.read
    /\ resources[last.name].path = "logo.png"
    /\ last.res.val[1] = "image/png"
    /\ last.was # None /\ resources[last.name].mtime # None
    /\ resources[last.name].mtime[1] > last.was[1]
    /\ last.res.val[2] # <<>>

\* C18: when the entry records Some(t) and the file reports t' <= t, a get
\* or a sweep leaves the entry exactly as it was: the mtime stays t, also
\* when t' < t, so the same holds at the next check for any t'' <= t.
C18_NoReloadKeepsEntry ==
    [][/\ \A n \in Held :
             GetStep(n) /\ BothKnown(n) /\ ~Newer(n) =>
                /\ resources'[n] = resources[n]
                /\ resources'[n].mtime = resources[n].mtime
       /\ SweepStep =>
             \A n \in last'.statted :
                BothKnown(n) /\ ~Newer(n) =>
                   /\ resources'[n] = resources[n]
                   /\ resources'[n].mtime = resources[n].mtime]_vars

\* A sweep met a file whose time had moved behind the recorded one and whose
\* content had changed, and left the entry with the later time and old data.
C18_Witness ==
    /\ last.op = "reload" /\ last.res.ok /\ last.read = {} /\ Held # {}
    /\ \E n \in last.statted :
          /\ FileOf(n).status = "ok" /\ FileOf(n).mtime # None
          /\ resources[n].mtime # None
          /\ FileOf(n).mtime[1] < resources[n].mtime[1]
          /\ FileOf(n).content # resources[n].data

\* C19: a register that fails returns the filesystem's error and leaves the
\* store as it was: no name is added, and the entry the name had stays.
C19_FailedRegisterKeepsStore ==
    [][\A n \in Names :
          RegisterStep(n) /\ ~last'.res.ok =>
             /\ IsIOError(last'.res)
             /\ files[last'.path].status # "ok"
             /\ resources' = resources]_vars

\* A register of a held name for another path failed on the content read,
\* the entry keeping its path.
C19_Witness ==
    /\ last.op = "register" /\ IsIOError(last.res) /\ last.name \in Held
    /\ last.name \in last.read
    /\ resources[last.name].path # last.path

\* C20: a get of n keeps the set of names and every entry but n's; a
\* register or unregister of n keeps every other name and entry; the set of
\* names changes in no other call.
C20_OtherNamesUntouched ==
    [][/\ \A n \in Names :
             /\ GetStep(n) =>
                   /\ DOMAIN resources' = Held
                   /\ \A m \in Held \ {n} : resources'[m] = resources[m]
             /\ RegisterStep(n) \/ UnregisterStep(n) =>
                   /\ DOMAIN resources' \ {n} = Held \ {n}
                   /\ \A m \in Held \ {n} : resources'[m] = resources[m]
       /\ DOMAIN resources' # Held => last'.op \in {"register", "unregister"}]_vars

\* An unregister of one name left the other held, with the bytes it had and
\* the file no longer has.
C20_Witness ==
    /\ last.op = "unregister" /\ last.res.val # None
    /\ \E m \in Held :
          /\ m # last.name
          /\ FileOf(m).status = "ok"
          /\ resources[m].data # FileOf(m).content

\* ------------------------------------------------------------------ SpecArc
\* The buffers behind Resource::data.  data: Arc<Vec<u8>> is a counted
\* pointer: here resources[n].data is the address of a buffer in heap.bufs,
\* get_resource hands out a clone of the pointer, which the caller keeps
\* (heap.held) with the bytes it saw when it got it (heap.seen), and a
\* buffer no pointer refers to is freed and its address used again.  One
\* name and one path; every call is one step.
MaxBufs == 3
Addrs == 1..MaxBufs
Free == <<-1>>
ArcName == "k1"
ArcPath == "notes"

FreeAddrs(bufs) == {a \in Addrs : bufs[a] = Free}

\* Dropping an Arc: a buffer that neither the map nor the caller points to
\* is freed.
Collect(bufs, map, held) ==
    LET live == {map[n].data : n \in DOMAIN map} \cup {held[i] : i \in DOMAIN held}
    IN [a \in Addrs |-> IF a \in live THEN bufs[a] ELSE Free]

\* Mutant: the new bytes are written into the buffer the entry points to.
assign_data_in_place(bufs, old, new_data, a) ==
    [bufs |-> [bufs EXCEPT ![old] = new_data], data |-> old]

\* resource.data = Arc::new(new_data): a buffer is allocated at the free
\* address a and the entry's pointer, which was `old`, is set to it.
assign_data(bufs, old, new_data, a) ==
    [bufs |-> [bufs EXCEPT ![a] = new_data], data |-> a]

ArcInit ==
    /\ files = [p \in Paths |-> MissingFile]
    /\ resources = EmptyMap
    /\ last = Call("new", "-", "-", Ok(<<>>), {}, {}, NoWas)
    /\ heap = [bufs |-> [a \in Addrs |-> Free], held |-> None, seen |-> <<>>]
    /\ calls = NoCalls

\* register_resource_file(ArcName, ArcPath) succeeding; a failing call
\* changes nothing.
ArcRegister ==
    LET md == metadata(ArcPath)
        rd == fs_read(ArcPath)
    IN /\ md.ok /\ rd.ok
       /\ \E a \in FreeAddrs(heap.bufs) :
             LET r == [register_resource(ArcPath, modified(md.val), rd.val)
                          EXCEPT !.data = a]
                 map == insert(resources, ArcName, r)
             IN /\ resources' = map
                /\ heap' = [heap EXCEPT
                               !.bufs = Collect([heap.bufs EXCEPT ![a] = rd.val],
                                                map, heap.held)]
       /\ UNCHANGED <<files, last, calls>>

\* unregister_resource_file(ArcName): the entry and its pointer are dropped.
ArcUnregister ==
    /\ resources' = remove(resources, ArcName)
    /\ heap' = [heap EXCEPT !.bufs = Collect(heap.bufs, resources', heap.held)]
    /\ UNCHANGED <<files, last, calls>>

\* The entry after the staleness check with `decision`, and the buffers.
ArcCheck(decision, a) ==
    LET resource == resources[ArcName]
        rd == fs_read(resource.path)
    IN IF decision.reload
       THEN LET st == assign_data(heap.bufs, resource.data, rd.val, a)
            IN [bufs |-> st.bufs,
                resource |-> [resource EXCEPT !.data = st.data,
                                              !.etag = compute_data_etag(rd.val),
                                              !.mtime = decision.new_mtime]]
       ELSE [bufs |-> heap.bufs, resource |-> resource]

\* get_resource(ArcName) succeeding: the caller keeps the clone returned and
\* drops the one it held.
ArcGet ==
    /\ ArcName \in DOMAIN resources
    /\ LET resource == resources[ArcName]
           md == metadata(resource.path)
       IN /\ md.ok
          /\ LET d == get_reload_decision(resource.mtime, modified(md.val))
             IN /\ d.reload => fs_read(resource.path).ok
                /\ \E a \in FreeAddrs(heap.bufs) :
                      LET out == ArcCheck(d, a)
                          map == [resources EXCEPT ![ArcName] = out.resource]
                          held == Some(out.resource.data)
                      IN /\ resources' = map
                         /\ heap' = [bufs |-> Collect(out.bufs, map, held),
                                     held |-> held,
                                     seen |-> out.bufs[out.resource.data]]
    /\ UNCHANGED <<files, last, calls>>

\* reload_if_needed() succeeding on the one entry.
ArcReload ==
    /\ ArcName \in DOMAIN resources
    /\ LET resource == resources[ArcName]
           md == metadata(resource.path)
       IN /\ md.ok
          /\ LET d == sweep_reload_decision(resource.mtime, modified(md.val))
             IN /\ d.reload => fs_read(resource.path).ok
                /\ \E a \in FreeAddrs(heap.bufs) :
                      LET out == ArcCheck(d, a)
                          map == [resources EXCEPT ![ArcName] = out.resource]
                      IN /\ resources' = map
                         /\ heap' = [heap EXCEPT
                                        !.bufs = Collect(out.bufs, map, heap.held)]
    /\ UNCHANGED <<files, last, calls>>

\* The caller drops the buffer it held.
ArcDrop ==
    /\ heap.held # None
    /\ heap' = [bufs |-> Collect(heap.bufs, resources, None),
                held |-> None, seen |-> <<>>]
    /\ UNCHANGED <<files, resources, last, calls>>

ArcNext ==
    \/ ArcRegister
    \/ ArcUnregister
    \/ ArcGet
    \/ ArcReload
    \/ ArcDrop
    \/ \E c \in Contents, t \in OptTimes : CreateFile(ArcPath, c, t)
    \/ \E c \in Contents : WriteFile(ArcPath, c)
    \/ \E t \in OptTimes : SetModified(ArcPath, t)
    \/ DeleteFile(ArcPath)

SpecArc == ArcInit /\ [][ArcNext]_vars

\* C15: the buffer a get returned holds the bytes it held when it was
\* returned for as long as the caller keeps it, whatever calls follow.
C15_SnapshotImmutable ==
    heap.held # None => heap.bufs[heap.held[1]] = heap.seen

\* The caller holds a buffer while the entry points to a newer one with
\* other bytes.
C15_Witness ==
    /\ heap.held # None /\ ArcName \in DOMAIN resources
    /\ resources[ArcName].data # heap.held[1]
    /\ heap.bufs[resources[ArcName].data] # heap.seen
    /\ heap.bufs[heap.held[1]] = heap.seen

\* ---------------------------------------------------------------- SpecSteps
\* The calls statement by statement.  Two threads call the store on one name
\* and one file while a writer changes the file; a call is a frame in
\* calls.frame that advances one statement per step, so that the file can
\* change between any two statements.  Every method takes `&mut self`: a
\* call begins only when no other call of the store is in progress.
\* calls.raced remembers that a write landed between the metadata query and
\* the content read of some call.
MaxWrites == 2     \* the writer's modification times are 0..MaxWrites
Threads == {"t1", "t2"}
Ops == {"register", "unregister", "reload", "get"}

\* Mutant: the content is read before the modification time is queried.
register_steps_read_first == <<"read", "stat", "insert">>

\* register_resource_file: path.metadata()? and modified(), fs::read()?, then
\* the Resource is built and inserted.
register_steps == <<"stat", "read", "insert">>

\* The statements of each method, in order.
Program(op) ==
    CASE op = "register"   -> register_steps
      [] op = "unregister" -> <<"remove">>
      [] op = "reload"     -> <<"next", "stat", "read", "data", "etag", "mtime", "ok">>
      [] op = "get"        -> <<"get_mut", "stat", "read", "data", "etag", "mtime",
                                "return">>

\* A thread's frame: the method and the statement it is at (pc 0: not in a
\* call), the locals (metadata, new_mtime / mtime, new_data / data), the map
\* as the call found it, and whether the file was left alone since it began.
IdleFrame ==
    [op |-> "-", pc |-> 0, md |-> None, new_mtime |-> None, rd |-> None,
     began |-> EmptyMap, quiet |-> TRUE]

\* What a call that returned leaves in `last`.
Returned(f, res) ==
    [op |-> f.op, res |-> res, began |-> f.began, md |-> f.md, rd |-> f.rd,
     quiet |-> f.quiet]

\* Mutant: a call begins while another one is in progress.
borrow_mut_shared(frames) == TRUE

\* `&mut self`: the exclusive borrow of the store a call needs.
borrow_mut(frames) == \A t \in Threads : frames[t].pc = 0

\* A statement leaves the map, the frame and, when the call returns, the
\* value returned.
Continue(map, f) == [map |-> map, f |-> [f EXCEPT !.pc = @ + 1], res |-> None]
Return(map, f, res) == [map |-> map, f |-> f, res |-> Some(res)]

StmtPath(f, map) == IF f.op = "register" THEN ArcPath ELSE map[ArcName].path

\* let metadata = path.metadata()?; and the match on modified().
stmt_stat(f, map) ==
    LET md == metadata(StmtPath(f, map))
        g == [f EXCEPT !.md = Some(md)]
    IN IF ~md.ok
       THEN Return(map, g, Err(md.err))
       ELSE IF f.op = "register"
            THEN Continue(map, [g EXCEPT !.new_mtime = modified(md.val)])
            ELSE LET d == IF f.op = "get"
                          THEN get_reload_decision(map[ArcName].mtime, modified(md.val))
                          ELSE sweep_reload_decision(map[ArcName].mtime, modified(md.val))
                     h == [g EXCEPT !.new_mtime = d.new_mtime]
                 IN IF d.reload
                    THEN Continue(map, h)
                    ELSE [map |-> map, f |-> [h EXCEPT !.pc = Len(Program(f.op))],
                          res |-> None]

\* let new_data = fs::read(&path)?;
stmt_read(f, map) ==
    LET rd == fs_read(StmtPath(f, map))
        g == [f EXCEPT !.rd = Some(rd)]
    IN IF ~rd.ok THEN Return(map, g, Err(rd.err)) ELSE Continue(map, g)

\* self.resources.insert(name, resource); Ok(())
stmt_insert(f, map) ==
    Return(insert(map, ArcName, register_resource(ArcPath, f.new_mtime, f.rd[1].val)),
           f, Ok(<<>>))

\* self.resources.remove(name).map(|resource| resource.path)
stmt_remove(f, map) ==
    Return(remove(map, ArcName), f,
           Ok(IF ArcName \in DOMAIN map THEN Some(map[ArcName].path) ELSE None))

\* self.resources.get_mut(name).ok_or_else(..)?
stmt_get_mut(f, map) ==
    IF ArcName \notin DOMAIN map
    THEN Return(map, f, Err(NotFoundName(ArcName)))
    ELSE Continue(map, f)

\* for resource in self.resources.values_mut()
stmt_next(f, map) ==
    IF DOMAIN map = {} THEN Return(map, f, Ok(<<>>)) ELSE Continue(map, f)

\* resource.data = Arc::new(new_data);
stmt_data(f, map) == Continue([map EXCEPT ![ArcName].data = f.rd[1].val], f)

\* resource.etag = new_etag;
stmt_etag(f, map) ==
    Continue([map EXCEPT ![ArcName].etag = compute_data_etag(f.rd[1].val)], f)

\* resource.mtime = new_mtime;
stmt_mtime(f, map) == Continue([map EXCEPT ![ArcName].mtime = f.new_mtime], f)

\* Ok((resource.mime.clone(), resource.data.clone(), &resource.etag))
stmt_return(f, map) == Return(map, f, get_return(map[ArcName]))

\* Ok(()) after the loop
stmt_ok(f, map) == Return(map, f, Ok(<<>>))

statement(stmt, f, map) ==
    CASE stmt = "stat"    -> stmt_stat(f, map)
      [] stmt = "read"    -> stmt_read(f, map)
      [] stmt = "insert"  -> stmt_insert(f, map)
      [] stmt = "remove"  -> stmt_remove(f, map)
      [] stmt = "get_mut" -> stmt_get_mut(f, map)
      [] stmt = "next"    -> stmt_next(f, map)
      [] stmt = "data"    -> stmt_data(f, map)
      [] stmt = "etag"    -> stmt_etag(f, map)
      [] stmt = "mtime"   -> stmt_mtime(f, map)
      [] stmt = "return"  -> stmt_return(f, map)
      [] stmt = "ok"      -> stmt_ok(f, map)

StepsInit ==
    /\ files = [p \in Paths |->
                   IF p = ArcPath
                   THEN [status |-> "ok", content |-> <<0>>, mtime |-> Some(0)]
                   ELSE MissingFile]
    /\ resources = EmptyMap
    /\ last = Returned([IdleFrame EXCEPT !.op = "new"], Ok(<<>>))
    /\ heap = NoHeap
    /\ calls = [frame |-> [t \in Threads |-> IdleFrame], raced |-> FALSE]

\* Thread t calls a method: it takes the store by `&mut self`.
Begin(t, op) ==
    /\ calls.frame[t].pc = 0
    /\ borrow_mut(calls.frame)
    /\ calls' = [calls EXCEPT !.frame[t] =
                    [IdleFrame EXCEPT !.op = op, !.pc = 1, !.began = resources]]
    /\ UNCHANGED <<files, resources, last, heap>>

\* Thread t executes the statement it is at.  The entry get_mut or the loop
\* borrowed is there for the rest of the call.
Step(t) ==
    LET f == calls.frame[t]
    IN /\ f.pc # 0
       /\ (f.op \in {"get", "reload"} /\ f.pc > 1) => ArcName \in DOMAIN resources
       /\ LET out == statement(Program(f.op)[f.pc], f, resources)
          IN /\ resources' = out.map
             /\ IF out.res = None
                THEN /\ calls' = [calls EXCEPT !.frame[t] = out.f]
                     /\ last' = last
                ELSE /\ calls' = [calls EXCEPT !.frame[t] = IdleFrame]
                     /\ last' = Returned(out.f, out.res[1])
       /\ UNCHANGED <<files, heap>>

\* The frames after the file changed: no call in progress had a quiet file.
Disturbed(frames) ==
    [t \in Threads |-> IF frames[t].pc = 0 THEN frames[t]
                       ELSE [frames[t] EXCEPT !.quiet = FALSE]]

\* A call is between its metadata query and its content read.
BetweenStatAndRead(f) ==
    f.pc # 0 /\ f.md # None /\ f.rd = None /\ Program(f.op)[f.pc] = "read"

\* The writer writes c to the file, making it if it was removed: the
\* modification time moves strictly forward.
StepsWrite(c) ==
    /\ files[ArcPath].mtime[1] < MaxWrites
    /\ files' = [files EXCEPT ![ArcPath] =
                    [status |-> "ok", content |-> c,
                     mtime |-> Some(files[ArcPath].mtime[1] + 1)]]
    /\ calls' = [frame |-> Disturbed(calls.frame),
                 raced |-> calls.raced
                           \/ \E t \in Threads : BetweenStatAndRead(calls.frame[t])]
    /\ UNCHANGED <<resources, last, heap>>

\* The writer removes the file.  The time of its last write is kept, for the
\* next write to pass it; no call sees it while the file is missing.
StepsDelete ==
    /\ files[ArcPath].status = "ok"
    /\ files' = [files EXCEPT ![ArcPath].status = "missing", ![ArcPath].content = <<>>]
    /\ calls' = [calls EXCEPT !.frame = Disturbed(calls.frame)]
    /\ UNCHANGED <<resources, last, heap>>

StepsNext ==
    \/ \E t \in Threads, op \in Ops : Begin(t, op)
    \/ \E t \in Threads : Step(t)
    \/ \E c \in Contents : StepsWrite(c)
    \/ StepsDelete

SpecSteps == StepsInit /\ [][StepsNext]_vars

\* The calls of Spec, one step each, on the map `map` with the file
\* observations a call made handed in: md is what metadata() gave and rd
\* what fs::read() gave (None when the call did not get there).
SerialRegister(map, md, rd) ==
    IF ~md[1].ok
    THEN register_failed(map, ArcName, md[1].err, {})
    ELSE IF ~rd[1].ok
         THEN register_failed(map, ArcName, rd[1].err, {ArcName})
         ELSE Outcome(insert(map, ArcName,
                             register_resource(ArcPath, modified(md[1].val), rd[1].val)),
                      Ok(<<>>), {ArcName}, {ArcName})

SerialUnregister(map) ==
    Outcome(remove(map, ArcName),
            Ok(IF ArcName \in DOMAIN map THEN Some(map[ArcName].path) ELSE None),
            {}, {})

SerialGet(map, md, rd) ==
    IF ArcName \notin DOMAIN map
    THEN get_not_found(map, ArcName)
    ELSE IF ~md[1].ok
         THEN get_metadata_failed(map, ArcName, md[1].err)
         ELSE LET resource == map[ArcName]
                  d == get_reload_decision(resource.mtime, modified(md[1].val))
              IN IF d.reload
                 THEN IF ~rd[1].ok
                      THEN get_read_failed(map, ArcName, d.new_mtime, rd[1].err)
                      ELSE LET r == get_replace(resource, rd[1].val, d.new_mtime)
                           IN Outcome([map EXCEPT ![ArcName] = r], get_return(r),
                                      {ArcName}, {ArcName})
                 ELSE Outcome(map, get_return(resource), {ArcName}, {})

SerialReload(map, md, rd) ==
    IF DOMAIN map = {}
    THEN Outcome(map, Ok(<<>>), {}, {})
    ELSE IF ~md[1].ok
         THEN sweep_failed(map, md[1].err, {ArcName}, {})
         ELSE LET resource == map[ArcName]
                  d == sweep_reload_decision(resource.mtime, modified(md[1].val))
              IN IF d.reload
                 THEN IF ~rd[1].ok
                      THEN sweep_failed(map, rd[1].err, {ArcName}, {ArcName})
                      ELSE Outcome([map EXCEPT ![ArcName] =
                                        sweep_replace(resource, rd[1].val, d.new_mtime)],
                                   Ok(<<>>), {ArcName}, {ArcName})
                 ELSE Outcome(map, Ok(<<>>), {ArcName}, {})

\* What the call recorded in r, run as one step on the map it began with,
\* leaves and returns.
Serial(r) ==
    CASE r.op = "register"   -> SerialRegister(r.began, r.md, r.rd)
      [] r.op = "unregister" -> SerialUnregister(r.began)
      [] r.op = "get"        -> SerialGet(r.began, r.md, r.rd)
      [] r.op = "reload"     -> SerialReload(r.began, r.md, r.rd)
      [] r.op = "new"        -> Outcome(EmptyMap, Ok(<<>>), {}, {})

InCall(frames) == {t \in Threads : frames[t].pc # 0}
Returns(t) == calls.frame[t].pc # 0 /\ calls'.frame[t].pc = 0

\* C16: at most one call of the store is in progress at any time; a call
\* that returns leaves the map and returns the value that the same call,
\* run as one step with the file observations it made, gives on the map the
\* call returning before it left (the calls line up in a serial order); and
\* a tuple a get returns has etag = compute_data_etag(data).
C16_ExclusiveAndSerial ==
    [][/\ Cardinality(InCall(calls'.frame)) <= 1
       /\ \A t \in Threads :
             Returns(t) =>
                /\ last'.began = Serial(last).resources
                /\ resources' = Serial(last').resources
                /\ last'.res = Serial(last').res
                /\ (last'.op = "get" /\ last'.res.ok)
                      => last'.res.val[3] = compute_data_etag(last'.res.val[2])]_vars

\* A get has stored the new data and not yet the new etag, after an earlier
\* get returned: the entry is out of step and no other call is in progress.
C16_Witness ==
    \E t \in Threads :
       /\ calls.frame[t].op = "get" /\ calls.frame[t].pc # 0
       /\ Program("get")[calls.frame[t].pc] = "etag"
       /\ resources[ArcName].etag # compute_data_etag(resources[ArcName].data)
       /\ \A u \in Threads \ {t} : calls.frame[u].pc = 0
       /\ last.op = "get" /\ last.res.ok

\* C17: a get that returns a tuple, with no write to the file between its
\* beginning and its return, returns the content the file holds, whatever
\* calls and writes were interleaved before it (every call queries the
\* modification time before it reads the content and records that time).
C17_QuietGetReturnsFinal ==
    [][\A t \in Threads :
          (Returns(t) /\ last'.op = "get" /\ last'.quiet /\ last'.res.ok)
             => last'.res.val[2] = files[ArcPath].content]_vars

\* A write landed between a call's metadata query and its content read, the
\* entry was left with the written content under the time queried before
\* the write, and a later get with the writer at rest read the file again
\* and returned its content.
C17_Witness ==
    /\ calls.raced
    /\ \A t \in Threads : calls.frame[t].pc = 0
    /\ last.op = "get" /\ last.quiet /\ last.res.ok
    /\ last.rd # None
    /\ last.began[ArcName].mtime[1] < files[ArcPath].mtime[1]
    /\ last.began[ArcName].data = files[ArcPath].content
    /\ last.res.val[2] = files[ArcPath].content
====
